---- MODULE Spec2Model ----
(***************************************************************************)
(* A model of mtg2f's conversion engine: IlluminaReportConverter            *)
(* (src/converter/converters.py) and its quality control                    *)
(* (src/converter/quality_control.py).                                      *)
(*                                                                          *)
(* Representation.                                                          *)
(*  - A Python str that the code inspects character by character (an        *)
(*    allele, a genotype, the missing sentinel, a wide-format cell) is a     *)
(*    sequence of one-character strings: "AG" is <<"A","G">>.               *)
(*  - A str that the code only compares and copies (an id, a chromosome, a  *)
(*    position, a column name) is a TLA+ string.                            *)
(*  - A tab-joined output line is the sequence of its tab-separated fields. *)
(*  - An input line is the sequence of strings line.split('\t') returns;    *)
(*    the empty line is <<"">>.  chars gives the characters of a token.     *)
(*  - A DataFrame is its set of column names and the sequence of its rows.  *)
(***************************************************************************)
EXTENDS Integers, Sequences, FiniteSets, TLC

VARIABLES
    missing_genotype,    \* self.missing_genotype
    min_genotype_count,  \* self.min_genotype_count
    entry,               \* the method the caller invoked
    input_format,        \* convert_file: input_format
    file,                \* the lines of the input file
    previous,            \* the result the caller keeps from an earlier call of convert
    pc,                  \* position of the running call
    nextline,            \* read_illumina_report: nextline
    report_headers,      \* self.report_headers
    data_headers,        \* self.data_headers
    wide_individuals,    \* read_wide_format: individuals
    line_num,            \* read_wide_format: line_num
    rows,                \* read_wide_format: rows
    warnings,            \* read_wide_format: the line numbers logged as skipped
    written,             \* convert_file: the files written, in order
    data_columns,        \* data.columns of the DataFrame handed to convert
    data,                \* its rows, in order
    snp_order,           \* convert: snp_order
    individuals,         \* convert: individuals
    map_lines,           \* convert: map_lines
    geno_matrix,         \* convert: geno_matrix[ind_idx][snp_idx]
    grp_no,              \* convert: number of the group the loop of line 300 is at
    geno_list,           \* convert: geno_list of the group processed last, after QC
    result,              \* convert: the returned dict, or NoResult
    error                \* the exception that ended the call, or NoError

\* the configuration, the arguments of the call and what the caller keeps
callVars == <<missing_genotype, min_genotype_count, entry, input_format, file, previous>>
\* the locals of read_illumina_report and the fields it sets
reportVars == <<nextline, report_headers, data_headers>>
\* the locals of read_wide_format
wideVars == <<wide_individuals, line_num, rows, warnings>>
\* the DataFrame
frameVars == <<data_columns, data>>
\* the locals of convert
convertVars == <<snp_order, individuals, map_lines, geno_matrix, grp_no, geno_list>>

vars == <<callVars, pc, reportVars, wideVars, frameVars, convertVars,
          result, error, written>>

-----------------------------------------------------------------------------
(* Bounds of the model                                                      *)

MaxRows == 3

SnpNames == {"rs1", "rs2"}
SampleIds == {"s1", "s2"}
Sentinels == {<<"-">>, <<"N", "N">>}
MinCounts == {0, 1, 2}

-----------------------------------------------------------------------------
(* Helpers on sequences                                                     *)

Range(s) == {s[i] : i \in 1..Len(s)}

\* Characters in code-point order, as sorted() orders them.
CodePoints == <<"-", "0", "A", "C", "G", "N">>

\* Mutant of sorted: the set is listed in another order.
sorted_descending(S) ==
    LET up == SelectSeq(CodePoints, LAMBDA c : c \in S)
    IN  [i \in 1..Len(up) |-> up[Len(up) + 1 - i]]

sorted(S) == SelectSeq(CodePoints, LAMBDA c : c \in S)

\* sub in s, for Python strings
Contains(sub, s) ==
    \E i \in 0..(Len(s) - Len(sub)) : SubSeq(s, i + 1, i + Len(sub)) = sub

\* Mutant of fromkeys: the distinct elements in order of last appearance.
RECURSIVE fromkeys_last(_)
fromkeys_last(s) ==
    IF s = <<>> THEN <<>>
    ELSE LET r == fromkeys_last(Tail(s))
         IN  IF Head(s) \in Range(r) THEN r ELSE <<Head(s)>> \o r

\* list(dict.fromkeys(s)): the distinct elements of s in order of first appearance
RECURSIVE fromkeys(_)
fromkeys(s) ==
    IF s = <<>> THEN <<>>
    ELSE LET r == fromkeys(SubSeq(s, 1, Len(s) - 1))
             x == s[Len(s)]
         IN  IF x \in Range(r) THEN r ELSE Append(r, x)

\* {s: i for i, s in enumerate(order)}[x], zero-based
IndexOf(order, x) == (CHOOSE i \in 1..Len(order) : order[i] = x) - 1

-----------------------------------------------------------------------------
(* Exceptions and results                                                   *)

\* An exception: its class, the raise statement it comes from, and the values
\* its message is formatted from.
Exc(type, what, snp, line, alleles, sample, geno, columns) ==
    [type |-> type, what |-> what, snp |-> snp, line |-> line,
     alleles |-> alleles, sample |-> sample, geno |-> geno, columns |-> columns]

NoError == Exc("none", "none", "", 0, <<>>, "", <<>>, {})

NoResult == [returned |-> FALSE, map |-> <<>>, ped |-> <<>>, individuals |-> <<>>]

-----------------------------------------------------------------------------
(* quality_control.py                                                       *)

\* geno_counts[g] of check_genotype_count
geno_count(genotypes, g) == Cardinality({i \in 1..Len(genotypes) : genotypes[i] = g})

\* Mutant of check_genotype_count: "fewer than min_count", as its docstring reads.
check_genotype_count_fewer(genotypes, missing, snp_id, min_count) ==
    IF min_count <= 0
    THEN genotypes
    ELSE LET low_genos == {g \in Range(genotypes) \ {missing} :
                              geno_count(genotypes, g) < min_count}
         IN  [i \in 1..Len(genotypes) |->
                 IF genotypes[i] \in low_genos THEN missing ELSE genotypes[i]]

check_genotype_count(genotypes, missing, snp_id, min_count) ==
    IF min_count <= 0
    THEN genotypes
    ELSE LET low_genos == {g \in Range(genotypes) \ {missing} :
                              geno_count(genotypes, g) <= min_count}
         IN  [i \in 1..Len(genotypes) |->
                 IF genotypes[i] \in low_genos THEN missing ELSE genotypes[i]]

\* the set alleles that validate_biallelic collects
biallelic_alleles(genotypes, missing) ==
    UNION {Range(genotypes[i]) : i \in {j \in 1..Len(genotypes) : genotypes[j] # missing}}

\* Mutant of validate_biallelic: three alleles pass.
validate_biallelic_three(genotypes, missing, snp_id, line_number) ==
    LET alleles == biallelic_alleles(genotypes, missing)
    IN  IF Cardinality(alleles) > 3
        THEN Exc("ValueError", "biallelic", snp_id, line_number, sorted(alleles),
                 "", <<>>, {})
        ELSE NoError

\* validate_biallelic: the exception it raises, or NoError when it returns
validate_biallelic(genotypes, missing, snp_id, line_number) ==
    LET alleles == biallelic_alleles(genotypes, missing)
    IN  IF Cardinality(alleles) > 2
        THEN Exc("ValueError", "biallelic", snp_id, line_number, sorted(alleles),
                 "", <<>>, {})
        ELSE NoError

-----------------------------------------------------------------------------
(* IlluminaReportConverter: configuration                                   *)

default_sex == 3
default_phenotype == -9

\* DEFAULT_COLUMN_MAP, by internal name
column_map ==
    [snp_name |-> "SNP Name", sample_id |-> "Sample ID",
     allele1 |-> "Allele1 - Top", allele2 |-> "Allele2 - Top",
     chromosome |-> "Chr", position |-> "Position"]

\* the list required of convert
required ==
    <<column_map.snp_name, column_map.sample_id, column_map.allele1,
      column_map.allele2, column_map.chromosome, column_map.position>>

\* A row of the long-format DataFrame, keyed by internal name.
Row(snp, sample, a1, a2, chr, pos) ==
    [snp |-> snp, sample |-> sample, a1 |-> a1, a2 |-> a2, chr |-> chr, pos |-> pos]

-----------------------------------------------------------------------------
(* IlluminaReportConverter.convert                                          *)

Uncalled == <<"0", "0">>

\* data['_geno'] of one row
geno_of(row) == row.a1 \o row.a2

\* missing_geno of convert
missing_geno_of(sentinel) == sentinel \o sentinel

\* Mutant of snp_info_of: the last row of every variant is kept.
snp_info_of_last(frame) ==
    SelectSeq([i \in 1..Len(frame) |-> [i |-> i, row |-> frame[i]]],
              LAMBDA e : \A j \in (e.i + 1)..Len(frame) : frame[j].snp # e.row.snp)

\* snp_info: drop_duplicates(subset=[snp_col]) keeps the first row of every variant
snp_info_of(frame) ==
    SelectSeq([i \in 1..Len(frame) |-> [i |-> i, row |-> frame[i]]],
              LAMBDA e : \A j \in 1..(e.i - 1) : frame[j].snp # e.row.snp)

column_of(frame, field) == [i \in 1..Len(frame) |-> frame[i][field]]

\* one MAP line
map_line(row) ==
    LET chrom == IF row.chr = "PseudoX" THEN "XY" ELSE row.chr
    IN  <<chrom, row.snp, "0", row.pos>>

\* data.groupby(snp_col, sort=False): the group keys in order of first appearance,
\* and the rows of one group in input order
group_keys(frame) == fromkeys(column_of(frame, "snp"))
group_rows(frame, snp_name) == SelectSeq(frame, LAMBDA r : r.snp = snp_name)

\* the test of line 320
is_missing_call(geno, sentinel) ==
    geno = missing_geno_of(sentinel) \/ Contains(sentinel, geno)

\* Mutant of set_cell: the rows of the matrix are one shared list.
set_cell_aliased(matrix, ind_idx, snp_idx, cell) ==
    [i \in 1..Len(matrix) |-> [matrix[i] EXCEPT ![snp_idx + 1] = cell]]

\* Mutant of set_cell: a cell that holds a call is not overwritten.
set_cell_first(matrix, ind_idx, snp_idx, cell) ==
    IF matrix[ind_idx + 1][snp_idx + 1] = Uncalled
    THEN [matrix EXCEPT ![ind_idx + 1][snp_idx + 1] = cell]
    ELSE matrix

\* geno_matrix[ind_idx][snp_idx] = cell, with zero-based indices
set_cell(matrix, ind_idx, snp_idx, cell) ==
    [matrix EXCEPT ![ind_idx + 1][snp_idx + 1] = cell]

\* the fill loop of lines 318-328 from position i on: the matrix it leaves and
\* the exception it raises, if any
RECURSIVE fill(_, _, _, _, _, _, _, _)
fill(matrix, sample_ids, genos, inds, snp_idx, snp_name, sentinel, i) ==
    IF i > Len(genos)
    THEN [matrix |-> matrix, error |-> NoError]
    ELSE LET geno == genos[i]
             sample_id == sample_ids[i]
             ind_idx == IndexOf(inds, sample_id)
         IN  IF is_missing_call(geno, sentinel)
             THEN fill(set_cell(matrix, ind_idx, snp_idx, Uncalled),
                       sample_ids, genos, inds, snp_idx, snp_name, sentinel, i + 1)
             ELSE IF Len(geno) # 2
             THEN [matrix |-> matrix,
                   error |-> Exc("ValueError", "genotype", snp_name, 0, <<>>,
                                 sample_id, geno, {})]
             ELSE fill(set_cell(matrix, ind_idx, snp_idx, <<geno[1], geno[2]>>),
                       sample_ids, genos, inds, snp_idx, snp_name, sentinel, i + 1)

\* Mutant of process_group: the biallelic validation reads the unfiltered list.
process_group_unfiltered(matrix, frame, order, inds, snp_name, sentinel, min_count) ==
    LET grp == group_rows(frame, snp_name)
        snp_idx == IndexOf(order, snp_name)
        sample_ids == column_of(grp, "sample")
        raw == [i \in 1..Len(grp) |-> geno_of(grp[i])]
        genos == check_genotype_count(raw, missing_geno_of(sentinel), snp_name, min_count)
        invalid == validate_biallelic(raw, missing_geno_of(sentinel),
                                      snp_name, snp_idx + 1)
        filled == fill(matrix, sample_ids, genos, inds, snp_idx, snp_name, sentinel, 1)
    IN  IF invalid # NoError
        THEN [matrix |-> matrix, error |-> invalid, geno_list |-> genos]
        ELSE [matrix |-> filled.matrix, error |-> filled.error, geno_list |-> genos]

\* the body of the loop of line 300 for one group
process_group(matrix, frame, order, inds, snp_name, sentinel, min_count) ==
    LET grp == group_rows(frame, snp_name)
        snp_idx == IndexOf(order, snp_name)
        sample_ids == column_of(grp, "sample")
        genos == check_genotype_count(
                         [i \in 1..Len(grp) |-> geno_of(grp[i])],
                         missing_geno_of(sentinel), snp_name, min_count)
        invalid == validate_biallelic(genos, missing_geno_of(sentinel),
                                      snp_name, snp_idx + 1)
        filled == fill(matrix, sample_ids, genos, inds, snp_idx, snp_name, sentinel, 1)
    IN  IF invalid # NoError
        THEN [matrix |-> matrix, error |-> invalid, geno_list |-> genos]
        ELSE [matrix |-> filled.matrix, error |-> filled.error, geno_list |-> genos]

RECURSIVE join_cells(_)
join_cells(cells) ==
    IF cells = <<>> THEN <<>> ELSE cells[1] \o join_cells(Tail(cells))

\* one PED line
ped_line(ind_id, cells) ==
    <<ind_id, ind_id, "0", "0", ToString(default_sex), ToString(default_phenotype)>>
        \o join_cells(cells)

\* lines 240-297: the column check, the two indices, the MAP lines and the
\* pre-allocated matrix
convert_enter ==
    /\ pc = "convert"
    /\ LET missing == SelectSeq(required, LAMBDA c : c \notin data_columns)
       IN  IF missing # <<>>
           THEN /\ error' = Exc("InvalidIlluminaReportError", "columns", "", 0, <<>>,
                                "", <<>>, Range(missing))
                /\ pc' = "raised"
                /\ UNCHANGED <<snp_order, individuals, map_lines, geno_matrix, grp_no>>
           ELSE LET snp_info == snp_info_of(data)
                    order == [i \in 1..Len(snp_info) |-> snp_info[i].row.snp]
                    inds == fromkeys(column_of(data, "sample"))
                IN  /\ snp_order' = order
                    /\ individuals' = inds
                    /\ map_lines' = [i \in 1..Len(snp_info) |-> map_line(snp_info[i].row)]
                    /\ geno_matrix' = [i \in 1..Len(inds) |->
                                          [j \in 1..Len(order) |-> Uncalled]]
                    /\ grp_no' = 1
                    /\ pc' = "groups"
                    /\ UNCHANGED error
    /\ UNCHANGED <<callVars, reportVars, wideVars, frameVars, geno_list, result,
                   written>>

\* lines 300-328: one iteration of the loop over the groups
convert_group ==
    /\ pc = "groups"
    /\ grp_no <= Len(group_keys(data))
    /\ LET out == process_group(geno_matrix, data, snp_order, individuals,
                                group_keys(data)[grp_no], missing_genotype,
                                min_genotype_count)
       IN  /\ geno_matrix' = out.matrix
           /\ geno_list' = out.geno_list
           /\ error' = out.error
           /\ IF out.error # NoError
              THEN pc' = "raised" /\ UNCHANGED grp_no
              ELSE pc' = "groups" /\ grp_no' = grp_no + 1
    /\ UNCHANGED <<callVars, reportVars, wideVars, frameVars,
                   snp_order, individuals, map_lines, result, written>>

\* lines 330-344: the PED lines and the return
convert_return ==
    /\ pc = "groups"
    /\ grp_no > Len(group_keys(data))
    /\ result' = [returned |-> TRUE,
                  map |-> map_lines,
                  ped |-> [i \in 1..Len(individuals) |->
                              ped_line(individuals[i], geno_matrix[i])],
                  individuals |-> individuals]
    /\ pc' = "returned"
    /\ UNCHANGED <<callVars, reportVars, wideVars, frameVars, convertVars,
                   error, written>>

-----------------------------------------------------------------------------
(* Text of the input files                                                  *)

\* the characters of a token of an input file
chars(token) ==
    CASE token = "" -> <<>>
      [] token = "A" -> <<"A">>
      [] token = "C" -> <<"C">>
      [] token = "G" -> <<"G">>
      [] token = "N" -> <<"N">>
      [] token = "-" -> <<"-">>
      [] token = "AA" -> <<"A", "A">>
      [] token = "AG" -> <<"A", "G">>
      [] token = "CG" -> <<"C", "G">>
      [] token = "NN" -> <<"N", "N">>
      [] token = "--" -> <<"-", "-">>
      [] token = "AAG" -> <<"A", "A", "G">>

\* f.readline() for the n-th line: the line, or EndOfFile
EndOfFile == <<>>
readline(lines, n) == IF n <= Len(lines) THEN lines[n] ELSE EndOfFile

-----------------------------------------------------------------------------
(* IlluminaReportConverter.read_wide_format                                 *)

\* header[3:] and parts[3:]
from_fourth(parts) == SubSeq(parts, 4, Len(parts))

\* Mutant of wide_row: a cell of another length yields the sentinel once.
wide_row_single(snp_id, ind_id, geno, chromosome, position, sentinel) ==
    IF Len(chars(geno)) = 2
    THEN Row(snp_id, ind_id, <<chars(geno)[1]>>, <<chars(geno)[2]>>, chromosome, position)
    ELSE Row(snp_id, ind_id, sentinel, <<>>, chromosome, position)

\* the row appended for one genotype cell, lines 195-208
wide_row(snp_id, ind_id, geno, chromosome, position, sentinel) ==
    IF Len(chars(geno)) = 2
    THEN Row(snp_id, ind_id, <<chars(geno)[1]>>, <<chars(geno)[2]>>, chromosome, position)
    ELSE Row(snp_id, ind_id, sentinel, sentinel, chromosome, position)

\* Mutant of wide_line: no column-count check, zip pairs what there is.
wide_line_zip(parts, inds, sentinel) ==
    IF parts = <<"">>
    THEN [outcome |-> "blank", rows |-> <<>>]
    ELSE IF Len(parts) < 4
    THEN [outcome |-> "skipped", rows |-> <<>>]
    ELSE LET genotypes == from_fourth(parts)
             n == IF Len(genotypes) < Len(inds) THEN Len(genotypes) ELSE Len(inds)
         IN  [outcome |-> "rows",
              rows |-> [i \in 1..n |->
                           wide_row(parts[1], inds[i], genotypes[i], parts[2],
                                    parts[3], sentinel)]]

\* the body of the loop of line 174 for one line: what becomes of the line, and
\* the rows it appends
wide_line(parts, inds, sentinel) ==
    IF parts = <<"">>
    THEN [outcome |-> "blank", rows |-> <<>>]
    ELSE IF Len(parts) < 4
    THEN [outcome |-> "skipped", rows |-> <<>>]
    ELSE LET genotypes == from_fourth(parts)
         IN  IF Len(genotypes) # Len(inds)
             THEN [outcome |-> "mismatch", rows |-> <<>>]
             ELSE [outcome |-> "rows",
                   rows |-> [i \in 1..Len(inds) |->
                                wide_row(parts[1], inds[i], genotypes[i], parts[2],
                                         parts[3], sentinel)]]

\* lines 162-173: the header line
read_wide_header ==
    /\ pc = "read_wide_format"
    /\ LET header == IF file = <<>> THEN <<"">> ELSE file[1]
       IN  IF from_fourth(header) = <<>>
           THEN /\ error' = Exc("ValueError", "wide_header", "", 1, <<>>, "", <<>>, {})
                /\ pc' = "raised"
                /\ UNCHANGED wideVars
           ELSE /\ wide_individuals' = from_fourth(header)
                /\ rows' = <<>>
                /\ line_num' = 2
                /\ pc' = "wide_lines"
                /\ UNCHANGED <<warnings, error>>
    /\ UNCHANGED <<callVars, reportVars, frameVars, convertVars, result, written>>

\* lines 174-208: one data line
read_wide_line ==
    /\ pc = "wide_lines"
    /\ line_num <= Len(file)
    /\ LET got == wide_line(file[line_num], wide_individuals, missing_genotype)
       IN  IF got.outcome = "mismatch"
           THEN /\ error' = Exc("ValueError", "wide_line", "", line_num, <<>>, "",
                                <<>>, {})
                /\ pc' = "raised"
                /\ UNCHANGED <<line_num, rows, warnings>>
           ELSE /\ rows' = rows \o got.rows
                /\ warnings' = IF got.outcome = "skipped"
                               THEN Append(warnings, line_num)
                               ELSE warnings
                /\ line_num' = line_num + 1
                /\ pc' = "wide_lines"
                /\ UNCHANGED error
    /\ UNCHANGED <<callVars, reportVars, wide_individuals, frameVars, convertVars,
                   result, written>>

\* lines 210-216: the DataFrame of the rows
read_wide_return ==
    /\ pc = "wide_lines"
    /\ line_num > Len(file)
    /\ data' = rows
    /\ data_columns' = IF rows = <<>> THEN {} ELSE Range(required)
    /\ pc' = "wide_read"
    /\ UNCHANGED <<callVars, reportVars, wideVars, convertVars, result, error, written>>

\* the caller passes the DataFrame of read_wide_format to convert
call_convert ==
    /\ pc = "wide_read"
    /\ pc' = "convert"
    /\ UNCHANGED <<callVars, reportVars, wideVars, frameVars, convertVars, result,
                   error, written>>

-----------------------------------------------------------------------------
(* IlluminaReportConverter.read_illumina_report                             *)

\* line.startswith('[Header]') and line.startswith('[')
BracketMarkers == {"[Header]", "[Data]"}
starts_with_header(line) == line[1] = "[Header]"
starts_with_bracket(line) == line[1] \in BracketMarkers

\* line.strip().split('\t'): no empty token at either end
RECURSIVE strip_split(_)
strip_split(line) ==
    IF Len(line) > 1 /\ line[1] = "" THEN strip_split(Tail(line))
    ELSE IF Len(line) > 1 /\ line[Len(line)] = ""
    THEN strip_split(SubSeq(line, 1, Len(line) - 1))
    ELSE line

\* the value of column name in a parsed line, "" when the frame has no such column
field_of(tokens, names, name) ==
    IF \E i \in 1..Len(names) : names[i] = name /\ i <= Len(tokens)
    THEN tokens[CHOOSE i \in 1..Len(names) : names[i] = name /\ i <= Len(tokens)]
    ELSE ""

\* pd.read_csv(sep='\t', skiprows=skip, names=names): the lines after the first
\* skip ones, blank lines dropped, as rows
read_csv(lines, skip, names) ==
    LET rest == SelectSeq(SubSeq(lines, skip + 1, Len(lines)), LAMBDA l : l # <<"">>)
    IN  [i \in 1..Len(rest) |->
            Row(field_of(rest[i], names, column_map.snp_name),
                field_of(rest[i], names, column_map.sample_id),
                chars(field_of(rest[i], names, column_map.allele1)),
                chars(field_of(rest[i], names, column_map.allele2)),
                field_of(rest[i], names, column_map.chromosome),
                field_of(rest[i], names, column_map.position))]

\* lines 118-126: one iteration of the search for [Header]
find_header ==
    /\ pc = "find_header"
    /\ LET line == readline(file, nextline + 1)
       IN  /\ nextline' = nextline + 1
           /\ IF line = EndOfFile
              THEN /\ error' = Exc("InvalidIlluminaReportError", "no_header", "",
                                   nextline + 1, <<>>, "", <<>>, {})
                   /\ pc' = "raised"
              ELSE /\ pc' = IF starts_with_header(line) THEN "report_headers"
                            ELSE "find_header"
                   /\ UNCHANGED error
    /\ UNCHANGED <<callVars, report_headers, data_headers, wideVars, frameVars,
                   convertVars, result, written>>

\* _read_report_headers, lines 418-430: one iteration of its loop
read_report_headers ==
    /\ pc = "report_headers"
    /\ LET line == readline(file, nextline + 1)
           vals == strip_split(line)
       IN  /\ nextline' = nextline + 1
           /\ IF line = EndOfFile \/ starts_with_bracket(line)
              THEN pc' = "data_headers" /\ UNCHANGED report_headers
              ELSE /\ pc' = "report_headers"
                   /\ report_headers' =
                          IF Len(vals) >= 2
                          THEN Append(SelectSeq(report_headers,
                                                LAMBDA h : h[1] # vals[1]),
                                      <<vals[1], vals[2]>>)
                          ELSE report_headers
    /\ UNCHANGED <<callVars, data_headers, wideVars, frameVars, convertVars, result,
                   error, written>>

\* Mutant of read_data_headers: the end of the file is taken as an empty line.
read_data_headers_unchecked ==
    /\ pc = "data_headers"
    /\ LET line == readline(file, nextline + 1)
       IN  /\ nextline' = nextline + 1
           /\ data_headers' = IF line = EndOfFile THEN <<"">> ELSE strip_split(line)
           /\ pc' = "read_csv"
           /\ UNCHANGED error
    /\ UNCHANGED <<callVars, report_headers, wideVars, frameVars, convertVars,
                   result, written>>

\* _read_data_headers, lines 408-416
read_data_headers ==
    /\ pc = "data_headers"
    /\ LET line == readline(file, nextline + 1)
       IN  /\ nextline' = nextline + 1
           /\ IF line = EndOfFile
              THEN /\ error' = Exc("InvalidIlluminaReportError", "no_data_header", "",
                                   nextline + 1, <<>>, "", <<>>, {})
                   /\ pc' = "raised"
                   /\ UNCHANGED data_headers
              ELSE /\ data_headers' = strip_split(line)
                   /\ pc' = "read_csv"
                   /\ UNCHANGED error
    /\ UNCHANGED <<callVars, report_headers, wideVars, frameVars, convertVars,
                   result, written>>

\* lines 131-137, and the call of convert on the frame (line 385)
read_report_data ==
    /\ pc = "read_csv"
    /\ data' = read_csv(file, nextline, data_headers)
    /\ data_columns' = Range(data_headers)
    /\ pc' = "convert"
    /\ UNCHANGED <<callVars, reportVars, wideVars, convertVars, result, error, written>>

-----------------------------------------------------------------------------
(* IlluminaReportConverter.convert_file                                     *)

\* lines 369-382: the choice of the reader
convert_file_read ==
    /\ pc = "convert_file"
    /\ IF input_format = "illumina"
       THEN pc' = "find_header" /\ UNCHANGED error
       ELSE /\ error' = Exc("ValueError", "input_format", "", 0, <<>>, "", <<>>, {})
            /\ pc' = "raised"
    /\ UNCHANGED <<callVars, reportVars, wideVars, frameVars, convertVars, result,
                   written>>

\* Mutant of write_step: the files are written also when the call has raised.
write_step_finally(at, next, suffix, lines) ==
    /\ pc \in {at, "raised"}
    /\ entry = "convert_file"
    /\ written' = Append(written, [suffix |-> suffix, lines |-> lines])
    /\ pc' = next
    /\ UNCHANGED <<callVars, reportVars, wideVars, frameVars, convertVars, result, error>>

\* one call of _write_lines or _write_ids
write_step(at, next, suffix, lines) ==
    /\ pc = at
    /\ entry = "convert_file"
    /\ written' = Append(written, [suffix |-> suffix, lines |-> lines])
    /\ pc' = next
    /\ UNCHANGED <<callVars, reportVars, wideVars, frameVars, convertVars, result, error>>

\* line 392
write_map == write_step("returned", "map_written", ".map", result.map)
\* line 393
write_ped == write_step("map_written", "ped_written", ".ped", result.ped)
\* line 394; _write_ids writes one id per line
write_ids ==
    write_step("ped_written", "file_done", "_id.txt",
               [i \in 1..Len(result.individuals) |-> <<result.individuals[i]>>])

-----------------------------------------------------------------------------
(* Inputs of convert                                                        *)

\* The calls (allele1, allele2) of the input rows: three well-formed calls over
\* three allele characters, a call of length 3 over two characters, one over
\* three, and the calls that involve the sentinel.
Calls(sentinel) ==
    {<<<<"A">>, <<"G">>>>, <<<<"G">>, <<"A">>>>, <<<<"C">>, <<"C">>>>,
     <<<<"A", "G">>, <<"A">>>>, <<<<"A", "G">>, <<"C">>>>,
     <<sentinel, sentinel>>, <<<<"A">>, sentinel>>}
    \cup (IF Len(sentinel) = 2 THEN {<<<<sentinel[1]>>, <<sentinel[2]>>>>} ELSE {})

ChrOf(snp) == IF snp = "rs1" THEN "1" ELSE "PseudoX"
PosOf(snp) == IF snp = "rs1" THEN "100" ELSE "200"

Rows(sentinel) ==
    {Row(snp, sample, c[1], c[2], ChrOf(snp), PosOf(snp)) :
        snp \in SnpNames, sample \in SampleIds, c \in Calls(sentinel)}

SeqsUpTo(S, n) == UNION {[1..k -> S] : k \in 0..n}

Tables(sentinel) == SeqsUpTo(Rows(sentinel), MaxRows)

\* nothing has run yet
InitIdle ==
    /\ previous = NoResult
    /\ nextline = 0
    /\ report_headers = <<>>
    /\ data_headers = <<>>
    /\ wide_individuals = <<>>
    /\ line_num = 0
    /\ rows = <<>>
    /\ warnings = <<>>
    /\ snp_order = <<>>
    /\ individuals = <<>>
    /\ map_lines = <<>>
    /\ geno_matrix = <<>>
    /\ grp_no = 0
    /\ geno_list = <<>>
    /\ result = NoResult
    /\ error = NoError
    /\ written = <<>>

\* convert is called on a DataFrame
Init ==
    /\ missing_genotype \in Sentinels
    /\ min_genotype_count \in MinCounts
    /\ entry = "convert"
    /\ input_format = "none"
    /\ file = <<>>
    /\ pc = "convert"
    /\ \/ /\ data_columns = Range(required)
          /\ data \in Tables(missing_genotype)
       \/ /\ data_columns \in {Range(required) \ {c} : c \in Range(required)}
          /\ data = <<>>
    /\ InitIdle

Next ==
    \/ convert_enter
    \/ convert_group
    \/ convert_return

Spec == Init /\ [][Next]_vars

-----------------------------------------------------------------------------
(* Inputs of convert: rows that differ in chromosome and position           *)

Chromosomes == {"1", "X", "PseudoX"}
Positions == {"100", "200"}

MapRows ==
    {Row(snp, sample, <<"A">>, <<"G">>, chr, pos) :
        snp \in SnpNames, sample \in SampleIds, chr \in Chromosomes, pos \in Positions}

\* convert is called on a DataFrame whose rows of one variant may disagree on
\* its chromosome and position
InitMap ==
    /\ missing_genotype \in Sentinels
    /\ min_genotype_count \in MinCounts
    /\ entry = "convert"
    /\ input_format = "none"
    /\ file = <<>>
    /\ pc = "convert"
    /\ \/ /\ data_columns = Range(required)
          /\ data \in SeqsUpTo(MapRows, MaxRows)
       \/ /\ data_columns \in {Range(required) \ {c} : c \in Range(required)}
          /\ data = <<>>
    /\ InitIdle

SpecMap == InitMap /\ [][Next]_vars

-----------------------------------------------------------------------------
(* convert, called again on the rows of its own result                      *)

\* the rows of a result: one row per cell, variant by variant, with the
\* chromosome and position of the MAP line and the two alleles of the cell
rows_of_result(res) ==
    LET n_ind == Len(res.ped)
    IN  [c \in 1..(Len(res.map) * n_ind) |->
            LET k == ((c - 1) \div n_ind) + 1
                i == ((c - 1) % n_ind) + 1
            IN  Row(res.map[k][2], res.ped[i][1],
                    <<res.ped[i][5 + 2 * k]>>, <<res.ped[i][6 + 2 * k]>>,
                    res.map[k][1], res.map[k][4])]

\* the caller keeps the result and calls convert, with the same configuration,
\* on the rows of the result
convert_again ==
    /\ pc = "returned"
    /\ entry = "convert"
    /\ previous = NoResult
    /\ previous' = result
    /\ data' = rows_of_result(result)
    /\ data_columns' = Range(required)
    /\ snp_order' = <<>>
    /\ individuals' = <<>>
    /\ map_lines' = <<>>
    /\ geno_matrix' = <<>>
    /\ grp_no' = 0
    /\ geno_list' = <<>>
    /\ result' = NoResult
    /\ pc' = "convert"
    /\ UNCHANGED <<missing_genotype, min_genotype_count, entry, input_format, file,
                   reportVars, wideVars, error, written>>

NextAgain ==
    \/ convert_enter
    \/ convert_group
    \/ convert_return
    \/ convert_again

SpecAgain == Init /\ [][NextAgain]_vars

-----------------------------------------------------------------------------
(* Inputs of convert: calls of other lengths                                *)

\* a well-formed call, calls of length 3 over two and over three characters,
\* the missing call, and a call in which the sentinel follows a character of
\* the first allele
LongCalls(sentinel) ==
    {<<<<"A">>, <<"G">>>>, <<<<"A", "G">>, <<"A">>>>, <<<<"A", "G">>, <<"C">>>>,
     <<sentinel, sentinel>>, <<<<"A">> \o sentinel, <<"A">>>>}

LongRows(sentinel) ==
    {Row(snp, sample, c[1], c[2], ChrOf(snp), PosOf(snp)) :
        snp \in SnpNames, sample \in SampleIds, c \in LongCalls(sentinel)}

\* convert is called on a DataFrame with such calls
InitLength ==
    /\ missing_genotype \in Sentinels
    /\ min_genotype_count \in MinCounts
    /\ entry = "convert"
    /\ input_format = "none"
    /\ file = <<>>
    /\ pc = "convert"
    /\ data_columns = Range(required)
    /\ data \in SeqsUpTo(LongRows(missing_genotype), MaxRows)
    /\ InitIdle

SpecLength == InitLength /\ [][Next]_vars

-----------------------------------------------------------------------------
(* Inputs of read_wide_format                                               *)

MaxLines == 2

\* cells of length 2, and cells of length 0, 1 and 3
WideCells == {"AA", "CG", "NN", "", "N", "AAG"}

WideHeaders ==
    {<<"SNP", "chr", "pos">>, <<"SNP", "chr", "pos", "s1">>,
     <<"SNP", "chr", "pos", "s1", "s2">>}

\* the empty line, a line of 3 columns, and lines of 4, 5 and 6 columns
WideLines ==
    {<<"">>, <<"rs1", "1", "100">>}
    \cup {<<snp, ChrOf(snp), PosOf(snp), g>> : snp \in SnpNames, g \in WideCells}
    \cup {<<snp, ChrOf(snp), PosOf(snp), g, h>> :
             snp \in SnpNames, g \in WideCells, h \in WideCells}
    \cup {<<snp, ChrOf(snp), PosOf(snp), "AA", "AA", "AA">> : snp \in SnpNames}

\* the empty file, and a header line followed by up to MaxLines lines
WideFiles ==
    {<<>>} \cup {<<h>> \o body : h \in WideHeaders, body \in SeqsUpTo(WideLines, MaxLines)}

\* read_wide_format is called on a file, and convert on the frame it returns
InitWide ==
    /\ missing_genotype \in Sentinels
    /\ min_genotype_count \in MinCounts
    /\ entry = "read_wide_format"
    /\ input_format = "none"
    /\ file \in WideFiles
    /\ pc = "read_wide_format"
    /\ data_columns = {}
    /\ data = <<>>
    /\ InitIdle

NextWide ==
    \/ read_wide_header
    \/ read_wide_line
    \/ read_wide_return
    \/ call_convert
    \/ convert_enter
    \/ convert_group
    \/ convert_return

SpecWide == InitWide /\ [][NextWide]_vars

-----------------------------------------------------------------------------
(* Inputs of convert_file                                                   *)

ReportNames ==
    <<"SNP Name", "Sample ID", "Allele1 - Top", "Allele2 - Top", "Chr", "Position">>

\* the column-name line, as expected and with one column under another name
NamesLines ==
    {ReportNames, [ReportNames EXCEPT ![5] = "Chromosome"]}

ReportCalls == {<<"A", "G">>, <<"C", "G">>, <<"-", "-">>}

ReportRows ==
    {<<"">>}
    \cup {<<snp, sample, c[1], c[2], ChrOf(snp), PosOf(snp)>> :
             snp \in SnpNames, sample \in SampleIds, c \in ReportCalls}

\* a report: each section present or absent, then up to MaxLines data lines
IlluminaFiles ==
    {pre \o hdr \o kv \o dat \o names \o body :
        pre \in {<<>>, <<<<"Illumina report">>>>},
        hdr \in {<<>>, <<<<"[Header]">>>>},
        kv \in {<<>>, <<<<"Content", "chip.bpm">>>>},
        dat \in {<<>>, <<<<"[Data]">>>>},
        names \in {<<>>} \cup {<<n>> : n \in NamesLines},
        body \in SeqsUpTo(ReportRows, MaxLines)}

InputFormats == {"illumina", "wide", "csv"}

\* convert_file is called on a file with a format tag
InitFile ==
    /\ missing_genotype \in Sentinels
    /\ min_genotype_count \in MinCounts
    /\ entry = "convert_file"
    /\ input_format \in InputFormats
    /\ file \in IF input_format = "illumina"
                THEN IlluminaFiles
                ELSE {f \in WideFiles : Len(f) <= 2}
    /\ pc = "convert_file"
    /\ data_columns = {}
    /\ data = <<>>
    /\ InitIdle

NextFile ==
    \/ convert_file_read
    \/ find_header
    \/ read_report_headers
    \/ read_data_headers
    \/ read_report_data
    \/ convert_enter
    \/ convert_group
    \/ convert_return
    \/ write_map
    \/ write_ped
    \/ write_ids

SpecFile == InitFile /\ [][NextFile]_vars

-----------------------------------------------------------------------------
(* Vocabulary of the properties, stated on the input rows and the result     *)

InputSnps == [i \in 1..Len(data) |-> data[i].snp]
InputSamples == [i \in 1..Len(data) |-> data[i].sample]

\* the position at which x first appears in s
FirstAt(s, x) == CHOOSE i \in 1..Len(s) : s[i] = x /\ \A j \in 1..(i - 1) : s[j] # x

\* order lists every element of s once, by first appearance in s
InOrderOfFirstAppearance(order, s) ==
    /\ Range(order) = Range(s)
    /\ \A i, j \in 1..Len(order) : i < j => FirstAt(s, order[i]) < FirstAt(s, order[j])

\* the doubled missing marker
MissingMarker == missing_genotype \o missing_genotype

\* the k-th allele pair of a PED line
PedPair(line, k) == <<line[5 + 2 * k], line[6 + 2 * k]>>

MapSnps == [k \in 1..Len(result.map) |-> result.map[k][2]]
PedSamples == [i \in 1..Len(result.ped) |-> result.ped[i][1]]

\* every PED line has its six leading fields and one pair per MAP line
PedShaped == \A i \in 1..Len(result.ped) : Len(result.ped[i]) = 6 + 2 * Len(result.map)

Occurrences(s, x) == Cardinality({j \in 1..Len(s) : s[j] = x})

\* the rows of variant v, as positions of the input
RowsOf(v) == {i \in 1..Len(data) : data[i].snp = v}
CallsOf(v, smp) == {i \in RowsOf(v) : data[i].sample = smp}

\* the genotype strings of variant v in input order
InputGenos(v) ==
    LET frame == SelectSeq(data, LAMBDA r : r.snp = v)
    IN  [i \in 1..Len(frame) |-> frame[i].a1 \o frame[i].a2]

\* the low-count filter rewrites the call of row i
Rewritten(i) ==
    LET g == data[i].a1 \o data[i].a2
    IN  /\ min_genotype_count > 0
        /\ g # MissingMarker
        /\ Occurrences(InputGenos(data[i].snp), g) <= min_genotype_count

\* the genotype of row i after the low-count filter
FilteredGeno(i) == IF Rewritten(i) THEN MissingMarker ELSE data[i].a1 \o data[i].a2

\* a genotype that the matrix holds as the uncalled pair: the doubled marker,
\* or a string in which the sentinel occurs
HeldAsMissing(g) ==
    \/ g = MissingMarker
    \/ \E i \in 1..(Len(g) - Len(missing_genotype) + 1) :
           \A j \in 1..Len(missing_genotype) : g[i + j - 1] = missing_genotype[j]
    \/ missing_genotype = <<>>

CellOf(g) == IF HeldAsMissing(g) THEN Uncalled ELSE <<g[1], g[2]>>

\* the allele characters of the called cells of MAP line k
CellAlleles(k) ==
    UNION {Range(PedPair(result.ped[i], k)) :
              i \in {j \in 1..Len(result.ped) : PedPair(result.ped[j], k) # Uncalled}}

\* the loop of convert has processed at least one group; LastGroup is its number
LastGroup == IF pc = "raised" THEN grp_no ELSE grp_no - 1
GroupProcessed ==
    /\ pc \in {"groups", "returned", "raised"}
    /\ error.what \in {"none", "biallelic", "genotype"}
    /\ LastGroup >= 1

-----------------------------------------------------------------------------
(* C1: the variant order (MAP lines, the pair columns of every PED line)    *)
(* and the sample order (PED lines, 'individuals') of a result are the      *)
(* orders of first appearance in the input rows, each id once.               *)
C1_FirstAppearanceOrder ==
    pc = "returned" =>
        /\ InOrderOfFirstAppearance(MapSnps, InputSnps)
        /\ InOrderOfFirstAppearance(result.individuals, InputSamples)
        /\ InOrderOfFirstAppearance(PedSamples, InputSamples)
        /\ PedShaped
        /\ \A i \in 1..Len(result.ped) : \A k \in 1..Len(result.map) :
               PedPair(result.ped[i], k) # Uncalled =>
                   \E r \in CallsOf(MapSnps[k], PedSamples[i]) :
                       data[r].a1 \o data[r].a2 = PedPair(result.ped[i], k)

\* a result for rows that start with the ids "rs2" and "s2" and come back to "rs2"
C1_Witness ==
    /\ pc = "returned"
    /\ Len(data) = 3
    /\ data[1].snp = "rs2" /\ data[2].snp = "rs1" /\ data[3].snp = "rs2"
    /\ data[1].sample = "s2" /\ data[2].sample = "s1" /\ data[3].sample = "s1"
    /\ \E i \in 1..2 : \E k \in 1..2 : PedPair(result.ped[i], k) # Uncalled

(* C3: in a result, the called cells of every variant hold at most 2        *)
(* distinct allele characters, whatever min_count and the sentinel are and  *)
(* also when a (variant, sample) pair has several calls.                    *)
C3_CellsBiallelic ==
    pc = "returned" =>
        /\ PedShaped
        /\ \A k \in 1..Len(result.map) : Cardinality(CellAlleles(k)) <= 2

\* a result with two allele characters in a variant for which a pair has two
\* calls, under an active low-count filter
C3_Witness ==
    /\ pc = "returned"
    /\ min_genotype_count > 0
    /\ \E k \in 1..Len(result.map) :
           /\ Cardinality(CellAlleles(k)) = 2
           /\ \E smp \in SampleIds : Cardinality(CallsOf(MapSnps[k], smp)) >= 2

C8_MatrixPopulated ==
    pc = "returned" =>
        /\ Len(result.ped) = Cardinality(Range(InputSamples))
        /\ Len(result.individuals) = Len(result.ped)
        /\ Len(result.map) = Cardinality(Range(InputSnps))
        /\ \A i \in 1..Len(result.ped) :
               /\ Len(result.ped[i]) = 6 + 2 * Cardinality(Range(InputSnps))
               /\ result.ped[i][1] = result.individuals[i]
               /\ result.ped[i][2] = result.individuals[i]
        /\ PedShaped
        /\ \A i \in 1..Len(result.ped) : \A k \in 1..Len(result.map) :
               CallsOf(MapSnps[k], PedSamples[i]) = {} =>
                   PedPair(result.ped[i], k) = Uncalled

\* a 2 x 2 result with a called cell and a cell that no row mentions
C8_Witness ==
    /\ pc = "returned"
    /\ Len(result.ped) = 2
    /\ Len(result.map) = 2
    /\ \E i \in 1..2 : \E k \in 1..2 : PedPair(result.ped[i], k) # Uncalled
    /\ \E i \in 1..2 : \E k \in 1..2 : CallsOf(MapSnps[k], PedSamples[i]) = {}

(* C9: the cell of a (variant, sample) pair with several calls is           *)
(* determined by the last of them in input order, after QC of the group: a  *)
(* later valid call replaces an earlier one, a later missing call resets    *)
(* the cell to the uncalled pair, and no other cell is affected.            *)
C9_LastCallWins ==
    pc = "returned" =>
        /\ PedShaped
        /\ \A i \in 1..Len(result.ped) : \A k \in 1..Len(result.map) :
               LET calls == CallsOf(MapSnps[k], PedSamples[i])
               IN  calls # {} =>
                       LET last == CHOOSE r \in calls : \A q \in calls : q <= r
                       IN  PedPair(result.ped[i], k) = CellOf(FilteredGeno(last))

\* a pair whose valid first call is reset by a later missing call, beside a
\* called cell of another pair
C9_Witness ==
    /\ pc = "returned"
    /\ \E r, q \in 1..Len(data) :
           /\ r < q
           /\ data[r].snp = data[q].snp
           /\ data[r].sample = data[q].sample
           /\ ~HeldAsMissing(FilteredGeno(r))
           /\ HeldAsMissing(FilteredGeno(q))
           /\ \A z \in CallsOf(data[q].snp, data[q].sample) : z <= q
    /\ \E i \in 1..Len(result.ped) : \E k \in 1..Len(result.map) :
           PedPair(result.ped[i], k) # Uncalled

-----------------------------------------------------------------------------
(* Vocabulary of the quality-control properties                             *)

\* the allele characters of the calls of variant v that the low-count filter
\* leaves different from the doubled missing marker
FilteredAlleles(v) ==
    UNION {Range(FilteredGeno(i)) : i \in {j \in RowsOf(v) : FilteredGeno(j) # MissingMarker}}

\* the same, before the low-count filter
UnfilteredAlleles(v) ==
    UNION {Range(data[i].a1 \o data[i].a2) :
              i \in {j \in RowsOf(v) : data[j].a1 \o data[j].a2 # MissingMarker}}

\* variant v breaks the biallelic rule
NotBiallelic(v) == Cardinality(FilteredAlleles(v)) > 2

\* variant v passes the biallelic rule and has a call, not held as missing, whose
\* length is not 2
HasBadLength(v) ==
    /\ ~NotBiallelic(v)
    /\ \E i \in RowsOf(v) : ~HeldAsMissing(FilteredGeno(i)) /\ Len(FilteredGeno(i)) # 2

\* the 1-based position of v in variant order
Position(v) ==
    Cardinality({w \in Range(InputSnps) : FirstAt(InputSnps, w) <= FirstAt(InputSnps, v)})

\* the first variant, in variant order, among those of V
FirstOf(V) == CHOOSE v \in V : \A w \in V : Position(v) <= Position(w)

CodePointOf(c) == CHOOSE i \in 1..Len(CodePoints) : CodePoints[i] = c

\* seq lists the characters of S in sorted order
ListsSorted(seq, S) ==
    /\ Range(seq) = S
    /\ \A i, j \in 1..Len(seq) : i < j => CodePointOf(seq[i]) < CodePointOf(seq[j])

\* the error is the biallelic error for variant v
IsBiallelicErrorFor(v) ==
    /\ error.type = "ValueError"
    /\ error.what = "biallelic"
    /\ error.snp = v
    /\ error.line = Position(v)
    /\ ListsSorted(error.alleles, FilteredAlleles(v))

\* convert has ended, past its column check
ConvertEnded == pc \in {"returned", "raised"} /\ error.what # "columns"

\* the rows whose call has an allele that is the sentinel
PartiallyMissing(v) ==
    {i \in RowsOf(v) : data[i].a1 = missing_genotype \/ data[i].a2 = missing_genotype}

(* C2: with the default sentinel "-", a call in which either allele is the  *)
(* sentinel (such as "A-") counts as missing: it does not make the          *)
(* conversion fail when the remaining calls of the variant use at most 2    *)
(* distinct allele characters, and its cell is the uncalled pair.           *)
C2_PartialSentinelIsMissing ==
    missing_genotype = <<"-">> =>
        \A v \in Range(InputSnps) :
            LET rest == RowsOf(v) \ PartiallyMissing(v)
                restAlleles ==
                    UNION {Range(FilteredGeno(i)) :
                              i \in {j \in rest : FilteredGeno(j) # MissingMarker}}
            IN  /\ Cardinality(restAlleles) <= 2 =>
                       ~(pc = "raised" /\ error.what = "biallelic" /\ error.snp = v)
                /\ pc = "returned" =>
                       \A i \in PartiallyMissing(v) :
                           (\A q \in CallsOf(v, data[i].sample) : q <= i) =>
                               PedPair(result.ped[FirstAt(PedSamples, data[i].sample)],
                                       FirstAt(MapSnps, v)) = Uncalled

C6_ValidationAfterFilter ==
    /\ GroupProcessed =>
           LET v == snp_order[LastGroup]
           IN  /\ (pc = "raised" /\ error.what = "biallelic") <=> NotBiallelic(v)
               /\ pc = "raised" => error.snp = v
    /\ pc = "returned" =>
           /\ PedShaped
           /\ \A i \in 1..Len(data) :
                  (Rewritten(i) /\ \A q \in CallsOf(data[i].snp, data[i].sample) : q <= i) =>
                      PedPair(result.ped[FirstAt(PedSamples, data[i].sample)],
                              FirstAt(MapSnps, data[i].snp)) = Uncalled

\* a result for a variant whose unfiltered calls hold three allele characters,
\* with the rewritten call shown as an uncalled cell beside a called one
C6_Witness ==
    /\ pc = "returned"
    /\ \E v \in Range(InputSnps) :
           /\ Cardinality(UnfilteredAlleles(v)) > 2
           /\ \E i, q \in RowsOf(v) :
                  /\ Rewritten(i)
                  /\ data[q].sample # data[i].sample
                  /\ PedPair(result.ped[FirstAt(PedSamples, data[i].sample)],
                             FirstAt(MapSnps, v)) = Uncalled
                  /\ PedPair(result.ped[FirstAt(PedSamples, data[q].sample)],
                             FirstAt(MapSnps, v)) # Uncalled

-----------------------------------------------------------------------------
(* Vocabulary of the wide-format properties                                 *)

WideHeader == IF file = <<>> THEN <<"">> ELSE file[1]

\* the number of sample columns of the header
SampleCount == Len(WideHeader) - 3

IsBlankLine(k) == file[k] = <<"">>
IsShortLine(k) == ~IsBlankLine(k) /\ Len(file[k]) < 4
IsMismatchedLine(k) ==
    ~IsBlankLine(k) /\ Len(file[k]) >= 4 /\ Len(file[k]) # 3 + SampleCount
IsRegularLine(k) == ~IsBlankLine(k) /\ ~IsShortLine(k) /\ ~IsMismatchedLine(k)

\* the parser has ended, by a return or by an exception
WideParseEnded == pc \notin {"read_wide_format", "wide_lines"}

\* the number of the last line the parser has handled without raising
LastHandled ==
    IF pc = "wide_lines" THEN line_num - 1
    ELSE IF pc = "raised" /\ error.what = "wide_line" THEN error.line - 1
    ELSE Len(file)

\* the (variant, sample) ids of the rows that lines 2..n are to contribute
RECURSIVE RowIdsUpTo(_)
RowIdsUpTo(n) ==
    IF n < 2 THEN <<>>
    ELSE RowIdsUpTo(n - 1)
             \o (IF IsRegularLine(n)
                 THEN [i \in 1..SampleCount |-> <<file[n][1], WideHeader[3 + i]>>]
                 ELSE <<>>)

(* C7: convert_file accepts both format tags, 'illumina' and 'wide'; only   *)
(* another tag is rejected as unknown.                                      *)
C7_BothFormatsAccepted ==
    (pc = "raised" /\ error.what = "input_format") =>
        input_format \notin {"illumina", "wide"}

(* C10: with at least one sample column, every non-empty data line of a     *)
(* wide-format file is skipped with a warning (fewer than 4 columns), or    *)
(* aborts the parse with an error naming its 1-based line number (at least  *)
(* 4 columns, but not 3 + sample_count; no rows are returned), or           *)
(* contributes sample_count rows; a header with no sample column aborts.    *)
C10_WideLineRules ==
    /\ (SampleCount < 1 /\ pc # "read_wide_format") =>
           /\ pc = "raised"
           /\ error.type = "ValueError"
           /\ error.what = "wide_header"
           /\ rows = <<>>
           /\ data = <<>>
    /\ (SampleCount >= 1 /\ pc # "read_wide_format") =>
           /\ \A k \in 2..LastHandled : ~IsMismatchedLine(k)
           /\ [i \in 1..Len(rows) |-> <<rows[i].snp, rows[i].sample>>]
                  = RowIdsUpTo(LastHandled)
           /\ Len(rows) = SampleCount
                  * Cardinality({k \in 2..LastHandled : IsRegularLine(k)})
           /\ warnings = SelectSeq([i \in 1..(LastHandled - 1) |-> i + 1],
                                   LAMBDA k : IsShortLine(k))
           /\ (pc = "raised" /\ error.what = "wide_line") =>
                  /\ error.type = "ValueError"
                  /\ IsMismatchedLine(error.line)
                  /\ data = <<>>
                  /\ data_columns = {}
           /\ WideParseEnded =>
                  IF \E k \in 2..Len(file) : IsMismatchedLine(k)
                  THEN pc = "raised" /\ error.what = "wide_line"
                  ELSE error.what \notin {"wide_line", "wide_header"} /\ data = rows

\* a file with two sample columns whose line 2 is skipped with a warning and
\* whose line 3 contributes two rows
C10_Witness ==
    /\ pc = "wide_read"
    /\ SampleCount = 2
    /\ Len(file) = 3
    /\ IsShortLine(2)
    /\ warnings = <<2>>
    /\ Len(data) = 2

-----------------------------------------------------------------------------
(* Vocabulary of the properties of wide-format cells                        *)

\* the sample columns of the header
HeaderSamples == [i \in 1..SampleCount |-> WideHeader[3 + i]]

\* a cell is well formed when its token has exactly 2 characters
WellFormedCell(token) == Len(chars(token)) = 2

\* the two alleles a cell is to give: its two characters, or the sentinel twice
CellPair(token) ==
    IF WellFormedCell(token)
    THEN <<<<chars(token)[1]>>, <<chars(token)[2]>>>>
    ELSE <<missing_genotype, missing_genotype>>

\* the rows that lines 2..n are to contribute, cell by cell
RECURSIVE WideRowsUpTo(_)
WideRowsUpTo(n) ==
    IF n < 2 THEN <<>>
    ELSE WideRowsUpTo(n - 1)
             \o (IF IsRegularLine(n)
                 THEN [i \in 1..SampleCount |->
                          [snp |-> file[n][1], sample |-> HeaderSamples[i],
                           a1 |-> CellPair(file[n][3 + i])[1],
                           a2 |-> CellPair(file[n][3 + i])[2],
                           chr |-> file[n][2], pos |-> file[n][3]]]
                 ELSE <<>>)

\* the regular lines of variant v, and the last cell of the pair (v, column i)
LinesOf(v) == {k \in 2..Len(file) : IsRegularLine(k) /\ file[k][1] = v}
LastCellOf(v, i) ==
    file[CHOOSE k \in LinesOf(v) : \A q \in LinesOf(v) : q <= k][3 + i]

\* Scenario D: header SNP, chr, pos and two samples, one line with the cells AA, N
ScenarioD ==
    /\ file = <<<<"SNP", "chr", "pos", "s1", "s2">>, <<"rs1", "1", "100", "AA", "N">>>>
    /\ min_genotype_count = 0

(* C11: in the wide-format parser a cell whose token length is not 2 never  *)
(* fails the line: it yields a row with the sentinel as both alleles, the   *)
(* other cells give their two characters, and in the result of convert the  *)
(* cell is the uncalled pair; Scenario D (cells AA, N) gives A A and 0 0,   *)
(* for the sentinel "-" and for "NN".                                       *)
C11_MalformedCellIsMissing ==
    /\ (SampleCount >= 1 /\ pc # "read_wide_format") =>
           /\ rows = WideRowsUpTo(LastHandled)
           /\ (pc = "raised" /\ error.what = "wide_line") =>
                  IsMismatchedLine(error.line)
           /\ error.what # "genotype"
           /\ (pc = "raised" /\ error.what = "biallelic") =>
                  Range(error.alleles) \subseteq
                      UNION {Range(chars(file[c[1]][3 + c[2]])) :
                                c \in {d \in LinesOf(error.snp) \X (1..SampleCount) :
                                          WellFormedCell(file[d[1]][3 + d[2]])}}
           /\ pc = "returned" =>
                  /\ PedShaped
                  /\ PedSamples = HeaderSamples
                  /\ \A k \in 1..Len(result.map) : \A i \in 1..SampleCount :
                         ~WellFormedCell(LastCellOf(MapSnps[k], i)) =>
                             PedPair(result.ped[i], k) = Uncalled
    /\ ScenarioD =>
           /\ pc # "raised"
           /\ pc = "returned" =>
                  /\ result.map = <<<<"1", "rs1", "0", "100">>>>
                  /\ result.ped = <<<<"s1", "s1", "0", "0", "3", "-9", "A", "A">>,
                                    <<"s2", "s2", "0", "0", "3", "-9", "0", "0">>>>

\* the result of Scenario D under the sentinel "NN"
C11_Witness ==
    /\ ScenarioD
    /\ missing_genotype = <<"N", "N">>
    /\ pc = "returned"
    /\ data[2].a1 = <<"N", "N">>
    /\ PedPair(result.ped[2], 1) = Uncalled
    /\ PedPair(result.ped[1], 1) = <<"A", "A">>

-----------------------------------------------------------------------------
(* Vocabulary of the properties of convert_file                             *)

\* the three outputs, in the order convert_file writes them
Outputs ==
    <<[suffix |-> ".map", lines |-> result.map],
      [suffix |-> ".ped", lines |-> result.ped],
      [suffix |-> "_id.txt",
       lines |-> [i \in 1..Len(result.individuals) |-> <<result.individuals[i]>>]]>>

\* the call ended in an error of the read step, of normalization or of QC
FailedRun ==
    /\ pc = "raised"
    /\ error.what \in {"input_format", "no_header", "no_data_header", "columns",
                       "biallelic", "genotype"}

(* C12: a run of convert_file that ends in a parsing, normalization or      *)
(* quality-control error has written none of the three outputs: writing     *)
(* starts only after the read step and convert have completed, and convert  *)
(* returns no partial result on error.                                      *)
C12_NoOutputOnError ==
    /\ pc = "raised" =>
           /\ FailedRun
           /\ written = <<>>
           /\ result = NoResult
    /\ written # <<>> =>
           /\ error = NoError
           /\ result.returned
           /\ pc \in {"map_written", "ped_written", "file_done"}
           /\ written = SubSeq(Outputs, 1, Len(written))
    /\ pc = "file_done" => written = Outputs

\* a report that is read, passes the column check and fails the biallelic rule
C12_Witness ==
    /\ entry = "convert_file"
    /\ FailedRun
    /\ error.what = "biallelic"
    /\ Len(data) = 2
    /\ map_lines # <<>>
    /\ written = <<>>

-----------------------------------------------------------------------------
(* C13: the MAP lines of a result are one line per distinct variant, of the *)
(* form chromosome, variant id, "0", position, with the chromosome and the  *)
(* position of the first input row that mentions the variant; the           *)
(* chromosome "PseudoX" is rendered as "XY", every other value unchanged.   *)
C13_MapLines ==
    pc = "returned" =>
        /\ result.map = map_lines
        /\ Len(result.map) = Cardinality(Range(InputSnps))
        /\ \A k \in 1..Len(result.map) : Len(result.map[k]) = 4
        /\ \A v \in Range(InputSnps) :
               /\ Occurrences(MapSnps, v) = 1
               /\ LET first == data[FirstAt(InputSnps, v)]
                      line == result.map[FirstAt(MapSnps, v)]
                  IN  /\ line[1] = (IF first.chr = "PseudoX" THEN "XY" ELSE first.chr)
                      /\ line[2] = v
                      /\ line[3] = "0"
                      /\ line[4] = first.pos

\* the first row of "rs1" is on "PseudoX" at "100", a later row of "rs1" is on
\* "1" at "200", and another variant is on "X"
C13_Witness ==
    /\ pc = "returned"
    /\ Len(data) = 3
    /\ data[1].snp = "rs1" /\ data[1].chr = "PseudoX" /\ data[1].pos = "100"
    /\ data[2].snp = "rs2" /\ data[2].chr = "X"
    /\ data[3].snp = "rs1" /\ data[3].chr = "1" /\ data[3].pos = "200"
    /\ result.map = <<<<"XY", "rs1", "0", "100">>, <<"X", "rs2", "0", data[2].pos>>>>

-----------------------------------------------------------------------------
(* C14: convert is idempotent: when the rows of a result (one row per cell, *)
(* variant by variant, chromosome and position of the MAP line, the two     *)
(* alleles of the cell) are converted again with the same configuration,    *)
(* the second call succeeds and its MAP lines and genotype matrix are those *)
(* of the first.                                                            *)
C14_Idempotent ==
    (previous.returned /\ pc \in {"returned", "raised"}) =>
        /\ pc = "returned"
        /\ result.map = previous.map
        /\ result.ped = previous.ped

-----------------------------------------------------------------------------
(* Vocabulary of the properties of the report parser                        *)

\* the lines that start with the header marker, and those that start with '['
HeaderLines == {k \in 1..Len(file) : file[k][1] = "[Header]"}
BracketLines == {k \in 1..Len(file) : file[k][1] \in {"[Header]", "[Data]"}}

Least(S) == CHOOSE k \in S : \A q \in S : k <= q

\* the line of the header marker, and the bracketed line that ends its section
HeaderLine == Least(HeaderLines)
SectionEnds == {k \in BracketLines : k > HeaderLine}
SectionEnd == Least(SectionEnds)

\* the non-empty lines after line n
DataLinesAfter(n) == {k \in (n + 1)..Len(file) : file[k] # <<"">>}

\* read_illumina_report has ended, by a return or by an exception
ReportParseEnded ==
    pc \notin {"convert_file", "find_header", "report_headers", "data_headers"}

(* C15: the report parser consumes the lines before the header marker, the  *)
(* marker, the key/value lines up to a line starting with '[' or the end of *)
(* the input, one column-name line, and the data rows, in this order.  It   *)
(* fails with a format error when the input ends before the header marker,  *)
(* and when no line follows the header section; otherwise the number of     *)
(* lines skipped before the data rows is the number of lines consumed up to *)
(* and including the column-name line.                                      *)
C15_ReportSections ==
    (entry = "convert_file" /\ input_format = "illumina") =>
        /\ pc = "find_header" =>
               /\ nextline <= Len(file)
               /\ \A k \in 1..nextline : k \notin HeaderLines
        /\ pc = "report_headers" =>
               /\ HeaderLines # {}
               /\ nextline \in HeaderLine..Len(file)
               /\ \A k \in (HeaderLine + 1)..nextline : k \notin BracketLines
        /\ pc = "data_headers" =>
               /\ HeaderLines # {}
               /\ nextline = IF SectionEnds # {} THEN SectionEnd ELSE Len(file) + 1
        /\ ReportParseEnded =>
               IF HeaderLines = {}
               THEN /\ pc = "raised"
                    /\ error.type = "InvalidIlluminaReportError"
                    /\ error.what = "no_header"
                    /\ data = <<>>
               ELSE IF SectionEnds = {} \/ SectionEnd = Len(file)
               THEN /\ pc = "raised"
                    /\ error.type = "InvalidIlluminaReportError"
                    /\ error.what = "no_data_header"
                    /\ data = <<>>
               ELSE /\ error.what \notin {"no_header", "no_data_header"}
                    /\ nextline = SectionEnd + 1
                    /\ data_headers = file[SectionEnd + 1]
                    /\ pc # "read_csv" =>
                           /\ Len(data) = Cardinality(DataLinesAfter(nextline))
                           /\ data_columns = Range(file[SectionEnd + 1])

\* a report with a line before the marker, one key/value line, the [Data]
\* marker, the column names and one data row: five lines are skipped
C15_Witness ==
    /\ entry = "convert_file"
    /\ input_format = "illumina"
    /\ pc = "convert"
    /\ Len(file) = 6
    /\ HeaderLines = {2}
    /\ BracketLines = {2, 4}
    /\ file[6] # <<"">>
    /\ nextline = 5
    /\ Len(data) = 1

-----------------------------------------------------------------------------
(* Vocabulary of the property of genotype lengths                           *)

\* the call of row i is not missing: after the low-count filter its genotype
\* is not the doubled marker, and neither allele is the sentinel
NotMissing(i) ==
    /\ FilteredGeno(i) # MissingMarker
    /\ data[i].a1 # missing_genotype
    /\ data[i].a2 # missing_genotype

\* such a call whose genotype string has another length than 2
BadLength(i) == NotMissing(i) /\ Len(FilteredGeno(i)) # 2

(* C16: a call that is not missing and whose genotype string has a length   *)
(* other than 2 makes convert fail: no result is returned, so the call is   *)
(* neither written to the matrix nor silently dropped, and the error for    *)
(* an unexpected genotype names the sample, the variant and the genotype    *)
(* string of such a call.                                                   *)
C16_BadLengthFails ==
    ConvertEnded =>
        /\ (\E i \in 1..Len(data) : BadLength(i)) =>
               /\ pc = "raised"
               /\ result = NoResult
        /\ (pc = "raised" /\ error.what = "genotype") =>
               \E i \in 1..Len(data) :
                   /\ BadLength(i)
                   /\ error.type = "ValueError"
                   /\ error.snp = data[i].snp
                   /\ error.sample = data[i].sample
                   /\ error.geno = data[i].a1 \o data[i].a2

====
